---------------------------- MODULE Spec2Model ----------------------------
(***************************************************************************)
(* Model of prototipo5.py (ocr-codigos-catalogo): recovery of catalog      *)
(* codes from per-page text.                                               *)
(*                                                                         *)
(* A Python str is modelled as a sequence of one-character strings, a dict *)
(* as a function together with the order in which its keys were inserted,  *)
(* a set as a set, a list as a sequence.                                   *)
(***************************************************************************)
EXTENDS Integers, Sequences, FiniteSets, TLC

VARIABLES
    pc,               \* position of the run: the statement about to execute
    code_header,      \* argument code_header (a pattern)
    code_pattern,     \* argument code_pattern (a pattern)
    substitutions,    \* argument substitutions: [none, map]
    page_range,       \* argument page_range: [none, pages]
    n_pages,          \* pdf_file.getNumPages()
    valid_codes,      \* set returned by load_codes
    todo,             \* pdf2text: the pages of page_range not yet visited
    texts,            \* dict page -> text built by pdf2text
    keys,             \* insertion order of the keys of texts
    page_i,           \* search_codes: index in keys of the page being processed
    tentative_codes,  \* search_codes: dict page -> set of str
    codes_found,      \* search_codes: dict page -> set of str
    returned,         \* what the call has returned, if it has
    error,            \* the exception that ended the run, if any
    st,               \* list_substitutions: argument st of the latest call
    sub_list,         \* list_substitutions: result of the latest call
    codes,            \* expand_with_substitutions: argument codes
    extended_codes,   \* expand_with_substitutions: the list being built
    solo              \* a second run of search_codes, on one page alone

vars == <<pc, code_header, code_pattern, substitutions, page_range, n_pages,
          valid_codes, todo, texts, keys, page_i, tentative_codes, codes_found,
          returned, error, st, sub_list, codes, extended_codes, solo>>

---------------------------------------------------------------------------
(* Bounds of the model.                                                    *)

\* Most pages a document has and a page range names.
MaxPages == 2
\* Longest token handed to the substitution functions on their own.
MaxTokenLen == 3
\* Most tokens in a set handed to expand_with_substitutions on its own.
MaxCodes == 2

---------------------------------------------------------------------------
(* Strings, dicts, small helpers.                                          *)

Range(s) == {s[i] : i \in 1..Len(s)}

Min(a, b) == IF a < b THEN a ELSE b

\* s[a:b] of Python, 0-based, b exclusive.
Slice(s, a, b) == [i \in 1..(b - a) |-> s[a + i]]

EmptyDict == [p \in {} |-> {}]

\* d[k] = v
DictSet(d, k, v) == [x \in (DOMAIN d) \cup {k} |-> IF x = k THEN v ELSE d[x]]

\* All orders in which the elements of a finite set can be iterated.
Orders(S) ==
    {o \in [1..Cardinality(S) -> S] : \A i, j \in 1..Cardinality(S) : o[i] = o[j] => i = j}

\* Strings of length at most n over an alphabet.
StringsUpTo(alphabet, n) == UNION {[1..k -> alphabet] : k \in 0..n}

---------------------------------------------------------------------------
(* Regular expressions, as Python's re module treats the patterns used.    *)
(* A pattern piece is [ok, atoms]: ok is FALSE for a string re.compile     *)
(* rejects; atoms is a sequence of character classes, each with a greedy   *)
(* quantifier {lo,hi} (hi = -1: no upper limit).                           *)

Atom(cls, lo, hi) == [cls |-> cls, lo |-> lo, hi |-> hi]

\* A plausible slip: the group read is the whole match, header included.
SearchPatternGroup0(header, code) ==
    [ok |-> header.ok /\ code.ok, atoms |-> header.atoms \o code.atoms, group |-> 1]

\* search_pattern = code_header + "(" + code_pattern + ")": the header's atoms,
\* then the code pattern's atoms as capture group 1. The concatenation compiles
\* only if both pieces do.

SearchPattern(header, code) ==
    [ok |-> header.ok /\ code.ok,
     atoms |-> header.atoms \o code.atoms,
     group |-> Len(header.atoms) + 1]

\* Number of consecutive characters of text from position pos (0-based) on that
\* are in cls.
RECURSIVE RunLength(_, _, _)
RunLength(cls, text, pos) ==
    IF pos < Len(text) /\ text[pos + 1] \in cls
    THEN 1 + RunLength(cls, text, pos + 1)
    ELSE 0

\* The backtracking matcher anchored at pos: atom i takes as many characters as
\* it can and gives back one at a time until the rest matches. The result is
\* the sequence of positions <<before atom i, ..., after the last atom>> of the
\* first match found, or <<>> if there is none.
RECURSIVE MatchFrom(_, _, _, _)
RECURSIVE TryCount(_, _, _, _, _)
MatchFrom(atoms, i, text, pos) ==
    IF i > Len(atoms)
    THEN <<pos>>
    ELSE LET run == RunLength(atoms[i].cls, text, pos)
             mx  == IF atoms[i].hi = -1 THEN run ELSE Min(atoms[i].hi, run)
         IN  TryCount(atoms, i, text, pos, mx)

TryCount(atoms, i, text, pos, k) ==
    IF k < atoms[i].lo
    THEN <<>>
    ELSE LET rest == MatchFrom(atoms, i + 1, text, pos + k)
         IN  IF rest # <<>> THEN <<pos>> \o rest ELSE TryCount(atoms, i, text, pos, k - 1)

\* re.finditer(pattern, text) followed by match.group(1) for each match: the
\* scan tries each start position from pos on, a match ends the scan at its end
\* position, and after an empty match the scan moves one character on.
RECURSIVE Scan(_, _, _)
Scan(pat, text, pos) ==
    IF pos > Len(text)
    THEN <<>>
    ELSE LET m == MatchFrom(pat.atoms, 1, text, pos)
         IN  IF m = <<>>
             THEN Scan(pat, text, pos + 1)
             ELSE LET e == m[Len(m)]
                      g == Slice(text, m[pat.group], e)
                  IN  <<g>> \o Scan(pat, text, IF e = pos THEN pos + 1 ELSE e)

FindIter(pat, text) == Scan(pat, text, 0)

---------------------------------------------------------------------------
(* list_substitutions and expand_with_substitutions.                       *)
(* A substitution dict is a function from characters to strings.           *)

\* sub_space = [substitutions[c] if c in substitutions else c for c in st]
SubSpace(s, subs) ==
    [i \in 1..Len(s) |-> IF s[i] \in DOMAIN subs THEN subs[s[i]] ELSE <<s[i]>>]

\* [x + (y,) for x in result for y in pool]
RECURSIVE Extend(_, _)
Extend(result, pool) ==
    IF result = <<>>
    THEN <<>>
    ELSE [j \in 1..Len(pool) |-> Append(Head(result), pool[j])] \o Extend(Tail(result), pool)

\* itertools.product(*pools): result = [[]]; for pool in pools: result = [...]
RECURSIVE Product(_, _)
Product(result, pools) ==
    IF pools = <<>> THEN result ELSE Product(Extend(result, Head(pools)), Tail(pools))

\* A plausible slip: only the first character is looked up in the dict, every
\* later character is kept as read.
ListSubstitutionsFirstOnly(s, subs) ==
    Product(<< <<>> >>,
            [i \in 1..Len(s) |->
                IF i = 1 /\ s[i] \in DOMAIN subs THEN subs[s[i]] ELSE <<s[i]>>])

ListSubstitutions(s, subs) == Product(<< <<>> >>, SubSpace(s, subs))

\* A plausible slip: "=" for "extend", so only the last code's list survives.
RECURSIVE ExpandWithSubstitutionsLastOnly(_, _)
ExpandWithSubstitutionsLastOnly(order, subs) ==
    IF order = <<>> THEN <<>> ELSE ListSubstitutions(order[Len(order)], subs)

\* extended_codes = []; for code in codes: extended_codes.extend(...)
\* order is the order in which the set codes is iterated.
RECURSIVE ExpandWithSubstitutions(_, _)
ExpandWithSubstitutions(order, subs) ==
    IF order = <<>>
    THEN <<>>
    ELSE ListSubstitutions(Head(order), subs) \o ExpandWithSubstitutions(Tail(order), subs)

---------------------------------------------------------------------------
(* The three stages of one iteration of the loop of search_codes, as       *)
(* functions of the dicts they update.                                     *)

\* A plausible slip: the set of matches is not started afresh for each page.
ExtractStageCarry(tc, page, text, pat) ==
    DictSet(tc, page, Range(FindIter(pat, text)) \cup UNION {tc[q] : q \in DOMAIN tc})

\* tentative_codes[page] = {match.group(1) for match in matches}
ExtractStage(tc, page, text, pat) == DictSet(tc, page, Range(FindIter(pat, text)))

\* A plausible slip: the expansion is kept aside and tentative_codes[page]
\* stays the set of matches.
ExpandStageKeep(tc, page, order, subs) == tc

\* tentative_codes[page] = set(expand_with_substitutions(tentative_codes[page], substitutions))
ExpandStage(tc, page, order, subs) ==
    DictSet(tc, page, Range(ExpandWithSubstitutions(order, subs)))

\* A plausible slip: union for intersection.
ValidateStageUnion(cf, tc, page, valid) == DictSet(cf, page, tc[page] \cup valid)

\* A plausible slip: a page without candidates is skipped, not recorded.
ValidateStageSkipEmpty(cf, tc, page, valid) ==
    IF tc[page] = {} THEN cf ELSE DictSet(cf, page, tc[page] \cap valid)

\* codes_found[page] = tentative_codes[page].intersection(valid_codes)
ValidateStage(cf, tc, page, valid) == DictSet(cf, page, tc[page] \cap valid)

---------------------------------------------------------------------------
(* load_codes.                                                             *)

\* str.split("\n"): the pieces between the newlines, empty ones included.
RECURSIVE SplitLines(_, _)
SplitLines(content, piece) ==
    IF content = <<>>
    THEN <<piece>>
    ELSE IF Head(content) = "\n"
         THEN <<piece>> \o SplitLines(Tail(content), <<>>)
         ELSE SplitLines(Tail(content), Append(piece, Head(content)))

\* set(filter(None, valid_codes_str.split("\n")))
LoadCodes(content) == {l \in Range(SplitLines(content, <<>>)) : l # <<>>}

---------------------------------------------------------------------------
(* Inputs.                                                                 *)

\* The characters page texts are made of: a header mark, a letter and two digits.
WordChars == {"O", "0", "1"}
Digits == {"0", "1"}
Letters == {"O"}

Piece(atoms) == [ok |-> TRUE, atoms |-> atoms]
\* A string re.compile rejects, such as "[0-9" or "REF(".
Malformed == [ok |-> FALSE, atoms |-> <<>>]

HeaderEmpty == Piece(<<>>)                                      \* ""
HeaderMark == Piece(<<Atom({"#"}, 1, 1)>>)                      \* "#"
CodeWordStar == Piece(<<Atom(WordChars, 0, -1)>>)               \* r'\w*'
CodeDigits == Piece(<<Atom(Digits, 2, 2)>>)                     \* r'\d{2}'
CodeAlnum == Piece(<<Atom(WordChars, 1, 2)>>)                   \* r'[A-Z0-9]{1,2}'
CodeLetterDigit == Piece(<<Atom(Letters, 0, 1), Atom(Digits, 1, 1)>>)  \* r'[A-Z]?\d'

\* The pairs <<code_header, code_pattern>> a run is called with.
PatternArgs ==
    { <<HeaderEmpty, CodeWordStar>>, <<HeaderMark, CodeAlnum>>, <<HeaderEmpty, CodeDigits>>,
      <<HeaderMark, CodeDigits>>, <<HeaderMark, CodeLetterDigit>>,
      <<HeaderMark, Malformed>>, <<Malformed, CodeAlnum>> }

NoSubstitutions == [none |-> TRUE, map |-> <<>>]
Subs(m) == [none |-> FALSE, map |-> m]
\* {"O": "O0"}
MapO == ("O" :> <<"O", "0">>)
\* The dict of load_test, cut down to the characters of the texts.
MapLoadTest == ("O" :> <<"O", "0">>) @@ ("0" :> <<"O", "0">>) @@ ("1" :> <<"1", "I">>)
\* The dict of the docstring: {"O": "0O", "l": "1I"}.
MapDocstring == ("O" :> <<"0", "O">>) @@ ("l" :> <<"1", "I">>)

SubstitutionArgs == {NoSubstitutions, Subs(<<>>), Subs(MapO), Subs(MapLoadTest)}

\* The texts a page can have.
Texts ==
    { <<>>,
      <<"#", "O", "0">>,
      <<"O", "0">>,
      <<"#", "0", "1", "#", "1", "O">> }

\* The contents of the file of valid codes.
CatalogFiles ==
    { <<>>,
      <<"0", "0", "\n">>,
      <<"0", "0", "\n", "\n", "0", "1", "\n", "0", "0">>,
      <<"O", "0", "\n", "1", "0", "\n">> }

Pages == 1..MaxPages

\* The lists a page range can be: pages in any order, none twice.
PageRanges == UNION {Orders(S) : S \in SUBSET Pages}

NoReturn == [has |-> FALSE, both |-> FALSE, found |-> EmptyDict, tentative |-> EmptyDict]
NoSolo == [ran |-> FALSE, page |-> 0, raised |-> FALSE, found |-> EmptyDict, tentative |-> EmptyDict]

---------------------------------------------------------------------------
(* detect_codes: load_codes, pdf2text, search_codes.                       *)

Init ==
    /\ pc = "load_codes"
    /\ \E args \in PatternArgs : code_header = args[1] /\ code_pattern = args[2]
    /\ substitutions \in SubstitutionArgs
    /\ n_pages \in 0..MaxPages
    /\ page_range \in {[none |-> TRUE, pages |-> <<>>]}
                        \cup {[none |-> FALSE, pages |-> r] : r \in PageRanges}
    /\ valid_codes = {}
    /\ todo = <<>>
    /\ texts = EmptyDict
    /\ keys = <<>>
    /\ page_i = 1
    /\ tentative_codes = EmptyDict
    /\ codes_found = EmptyDict
    /\ returned = NoReturn
    /\ error = "none"
    /\ st = <<>>
    /\ sub_list = <<>>
    /\ codes = {}
    /\ extended_codes = <<>>
    /\ solo = NoSolo

\* valid_codes = load_codes(valid_codes_path)
LoadCodesStep ==
    /\ pc = "load_codes"
    /\ \E content \in CatalogFiles : valid_codes' = LoadCodes(content)
    /\ pc' = "pdf2text"
    /\ UNCHANGED <<code_header, code_pattern, substitutions, page_range, n_pages, todo,
                   texts, keys, page_i, tentative_codes, codes_found, returned, error,
                   st, sub_list, codes, extended_codes, solo>>

\* pdf2text up to its loop: page_range defaults to every page of the document.
Pdf2TextBegin ==
    /\ pc = "pdf2text"
    /\ todo' = IF page_range.none THEN [k \in 1..n_pages |-> k] ELSE page_range.pages
    /\ texts' = EmptyDict
    /\ keys' = <<>>
    /\ pc' = "fetch"
    /\ UNCHANGED <<code_header, code_pattern, substitutions, page_range, n_pages,
                   valid_codes, page_i, tentative_codes, codes_found, returned, error,
                   st, sub_list, codes, extended_codes, solo>>

\* A plausible change: the failure is caught, the page gets an empty text and
\* the loop goes on.
FetchFailsIsolated(k) ==
    /\ error' = "text_source"
    /\ texts' = DictSet(texts, k, <<>>)
    /\ keys' = IF k \in DOMAIN texts THEN keys ELSE Append(keys, k)
    /\ todo' = Tail(todo)
    /\ pc' = "fetch"

\* The backend raises for page k (no such page, an unreadable document, the
\* recognition engine failing): nothing catches it, so it leaves pdf2text and
\* detect_codes.
FetchFails(k) ==
    /\ error' = "text_source"
    /\ pc' = "raised"
    /\ UNCHANGED <<texts, keys, todo>>

\* One iteration of the loop of pdf2text (either backend): texts[k] = text.
FetchPage ==
    /\ pc = "fetch"
    /\ todo # <<>>
    /\ LET k == Head(todo)
       IN  \/ /\ k \in 1..n_pages
              /\ \E text \in Texts : texts' = DictSet(texts, k, text)
              /\ keys' = IF k \in DOMAIN texts THEN keys ELSE Append(keys, k)
              /\ todo' = Tail(todo)
              /\ UNCHANGED <<pc, error>>
           \/ FetchFails(k)
    /\ UNCHANGED <<code_header, code_pattern, substitutions, page_range, n_pages,
                   valid_codes, page_i, tentative_codes, codes_found, returned,
                   st, sub_list, codes, extended_codes, solo>>

\* pdf2text returns texts; search_codes starts: both dicts empty, the search
\* pattern concatenated (not yet compiled).
SearchCodesBegin ==
    /\ pc = "fetch"
    /\ todo = <<>>
    /\ tentative_codes' = EmptyDict
    /\ codes_found' = EmptyDict
    /\ page_i' = 1
    /\ pc' = "page"
    /\ UNCHANGED <<code_header, code_pattern, substitutions, page_range, n_pages,
                   valid_codes, todo, texts, keys, returned, error,
                   st, sub_list, codes, extended_codes, solo>>

\* matches = re.finditer(...); tentative_codes[page] = {...}. re.finditer compiles
\* the pattern first and raises re.error if it is malformed.
Extract ==
    /\ pc = "page"
    /\ page_i <= Len(keys)
    /\ LET pat == SearchPattern(code_header, code_pattern)
           page == keys[page_i]
       IN  IF ~pat.ok
           THEN /\ pc' = "raised"
                /\ error' = "pattern"
                /\ UNCHANGED tentative_codes
           ELSE /\ tentative_codes' = ExtractStage(tentative_codes, page, texts[page], pat)
                /\ pc' = IF substitutions.none THEN "validate" ELSE "expand"
                /\ UNCHANGED error
    /\ UNCHANGED <<code_header, code_pattern, substitutions, page_range, n_pages,
                   valid_codes, todo, texts, keys, page_i, codes_found, returned,
                   st, sub_list, codes, extended_codes, solo>>

\* if substitutions is not None: tentative_codes[page] = set(expand_with_substitutions(...))
Expand ==
    /\ pc = "expand"
    /\ LET page == keys[page_i]
       IN  \E order \in Orders(tentative_codes[page]) :
               tentative_codes' = ExpandStage(tentative_codes, page, order, substitutions.map)
    /\ pc' = "validate"
    /\ UNCHANGED <<code_header, code_pattern, substitutions, page_range, n_pages,
                   valid_codes, todo, texts, keys, page_i, codes_found, returned, error,
                   st, sub_list, codes, extended_codes, solo>>

\* codes_found[page] = tentative_codes[page].intersection(valid_codes); next page.
Validate ==
    /\ pc = "validate"
    /\ codes_found' = ValidateStage(codes_found, tentative_codes, keys[page_i], valid_codes)
    /\ page_i' = page_i + 1
    /\ pc' = "page"
    /\ UNCHANGED <<code_header, code_pattern, substitutions, page_range, n_pages,
                   valid_codes, todo, texts, keys, tentative_codes, returned, error,
                   st, sub_list, codes, extended_codes, solo>>

\* The loop is over: return codes_found, with tentative_codes if show_tentative.
\* detect_codes returns what search_codes returns.
Return ==
    /\ pc = "page"
    /\ page_i > Len(keys)
    /\ \E show_tentative \in BOOLEAN :
           returned' = [has |-> TRUE, both |-> show_tentative, found |-> codes_found,
                        tentative |-> IF show_tentative THEN tentative_codes ELSE EmptyDict]
    /\ pc' = "done"
    /\ UNCHANGED <<code_header, code_pattern, substitutions, page_range, n_pages,
                   valid_codes, todo, texts, keys, page_i, tentative_codes, codes_found,
                   error, st, sub_list, codes, extended_codes, solo>>

Next ==
    \/ LoadCodesStep
    \/ Pdf2TextBegin
    \/ FetchPage
    \/ SearchCodesBegin
    \/ Extract
    \/ Expand
    \/ Validate
    \/ Return

Spec == Init /\ [][Next]_vars

---------------------------------------------------------------------------
(* The substitution functions called on their own, on every set of at most *)
(* MaxCodes tokens of at most MaxTokenLen characters.                      *)

\* A character read right or wrong ("O") and one always read wrong ("l").
TokenChars == {"O", "l"}
Tokens == StringsUpTo(TokenChars, MaxTokenLen)
\* {"l": "1Il"}: three alternatives.
MapThree == ("l" :> <<"1", "I", "l">>)
ExpandMaps == {<<>>, MapO, MapDocstring, MapThree}

InitExpand ==
    /\ pc = "call"
    /\ substitutions \in {Subs(m) : m \in ExpandMaps}
    /\ codes \in {Range(q) : q \in UNION {[1..k -> Tokens] : k \in 0..MaxCodes}}
    /\ st = <<>>
    /\ sub_list = <<>>
    /\ extended_codes = <<>>
    /\ code_header = HeaderEmpty
    /\ code_pattern = CodeWordStar
    /\ page_range = [none |-> TRUE, pages |-> <<>>]
    /\ n_pages = 0
    /\ valid_codes = {}
    /\ todo = <<>>
    /\ texts = EmptyDict
    /\ keys = <<>>
    /\ page_i = 1
    /\ tentative_codes = EmptyDict
    /\ codes_found = EmptyDict
    /\ returned = NoReturn
    /\ error = "none"
    /\ solo = NoSolo

\* sub_list = list_substitutions(st, substitutions)
CallListSubstitutions ==
    /\ pc = "call"
    /\ \E s \in codes :
           /\ st' = s
           /\ sub_list' = ListSubstitutions(s, substitutions.map)
    /\ pc' = "listed"
    /\ UNCHANGED <<code_header, code_pattern, substitutions, page_range, n_pages,
                   valid_codes, todo, texts, keys, page_i, tentative_codes, codes_found,
                   returned, error, codes, extended_codes, solo>>

\* extended_codes = expand_with_substitutions(codes, substitutions)
CallExpandWithSubstitutions ==
    /\ pc = "call"
    /\ \E order \in Orders(codes) :
           extended_codes' = ExpandWithSubstitutions(order, substitutions.map)
    /\ pc' = "expanded"
    /\ UNCHANGED <<code_header, code_pattern, substitutions, page_range, n_pages,
                   valid_codes, todo, texts, keys, page_i, tentative_codes, codes_found,
                   returned, error, st, sub_list, codes, solo>>

NextExpand == CallListSubstitutions \/ CallExpandWithSubstitutions

SpecExpand == InitExpand /\ [][NextExpand]_vars

---------------------------------------------------------------------------
(* search_codes called directly on a dict of texts, next to a second call  *)
(* of search_codes, with the same other arguments, on one of its pages     *)
(* alone.                                                                  *)

InitPair ==
    /\ pc = "page"
    /\ \E args \in PatternArgs : code_header = args[1] /\ code_pattern = args[2]
    /\ substitutions \in SubstitutionArgs
    /\ valid_codes \in {LoadCodes(content) : content \in CatalogFiles}
    /\ texts \in UNION {[S -> Texts] : S \in SUBSET Pages}
    /\ keys \in Orders(DOMAIN texts)
    /\ page_i = 1
    /\ tentative_codes = EmptyDict
    /\ codes_found = EmptyDict
    /\ returned = NoReturn
    /\ error = "none"
    /\ solo = NoSolo
    /\ page_range = [none |-> TRUE, pages |-> <<>>]
    /\ n_pages = 0
    /\ todo = <<>>
    /\ st = <<>>
    /\ sub_list = <<>>
    /\ codes = {}
    /\ extended_codes = <<>>

\* search_codes({p: texts[p]}, valid_codes, code_pattern, code_header, ...),
\* from its first statement to its return.
SoloRun ==
    /\ pc = "page"
    /\ page_i = 1
    /\ ~solo.ran
    /\ \E p \in DOMAIN texts :
          LET pat == SearchPattern(code_header, code_pattern)
              extracted == ExtractStage(EmptyDict, p, texts[p], pat)
          IN  IF ~pat.ok
              THEN solo' = [NoSolo EXCEPT !.ran = TRUE, !.page = p, !.raised = TRUE]
              ELSE \E order \in Orders(extracted[p]) :
                      LET tentative == IF substitutions.none
                                       THEN extracted
                                       ELSE ExpandStage(extracted, p, order, substitutions.map)
                      IN  solo' = [ran |-> TRUE, page |-> p, raised |-> FALSE,
                                   found |-> ValidateStage(EmptyDict, tentative, p, valid_codes),
                                   tentative |-> tentative]
    /\ UNCHANGED <<pc, code_header, code_pattern, substitutions, page_range, n_pages,
                   valid_codes, todo, texts, keys, page_i, tentative_codes, codes_found,
                   returned, error, st, sub_list, codes, extended_codes>>

NextPair == SoloRun \/ Extract \/ Expand \/ Validate \/ Return

SpecPair == InitPair /\ [][NextPair]_vars

---------------------------------------------------------------------------
(* What the claims speak of, stated without the code's algorithms.         *)

\* The current run's compiled search pattern.
Pattern == SearchPattern(code_header, code_pattern)

\* The capture-group matches of a text.
MatchSet(text) == Range(FindIter(Pattern, text))

\* A_i: what the character c may stand for.
Alternatives(c, subs) == IF c \in DOMAIN subs THEN Range(subs[c]) ELSE {c}

\* The Cartesian product of the A_i over the positions of s, as strings.
CartesianSet(s, subs) ==
    {t \in [1..Len(s) -> UNION {Alternatives(s[i], subs) : i \in 1..Len(s)}] :
        \A i \in 1..Len(s) : t[i] \in Alternatives(s[i], subs)}

\* The product over the positions of s of len(map[char]), 1 for an unmapped one.
RECURSIVE ProductOfLengths(_, _)
ProductOfLengths(s, subs) ==
    IF s = <<>>
    THEN 1
    ELSE (IF Head(s) \in DOMAIN subs THEN Len(subs[Head(s)]) ELSE 1)
         * ProductOfLengths(Tail(s), subs)

\* A page's candidate set: its matches, or their expansions when a map is given.
CandidateSet(text) ==
    IF substitutions.none
    THEN MatchSet(text)
    ELSE UNION {CartesianSet(t, substitutions.map) : t \in MatchSet(text)}

\* Every position at which some match of atoms i.. anchored at pos can end.
RECURSIVE EndsFrom(_, _, _, _)
EndsFrom(atoms, i, text, pos) ==
    IF i > Len(atoms)
    THEN {pos}
    ELSE LET run == RunLength(atoms[i].cls, text, pos)
             mx  == IF atoms[i].hi = -1 THEN run ELSE Min(atoms[i].hi, run)
         IN  UNION {EndsFrom(atoms, i + 1, text, pos + k) : k \in atoms[i].lo..mx}

\* The string s, as a whole, matches the code pattern.
MatchesCodePattern(s) == code_pattern.ok /\ Len(s) \in EndsFrom(code_pattern.atoms, 1, s, 0)

InSearchCodes == pc \in {"page", "expand", "validate"}

---------------------------------------------------------------------------
(* The claims.                                                             *)

\* C1: for every page search_codes has recorded, the validated set is exactly
\* the intersection of the page's candidate set (its matches, or their
\* expansions when a map is given) with the catalog; what is returned is that.
C1_ValidatedIsIntersection ==
    /\ \A p \in DOMAIN codes_found :
           codes_found[p] = CandidateSet(texts[p]) \cap valid_codes
    /\ returned.has => returned.found = codes_found

\* A page is recorded, under a map, with a candidate in the catalog, a candidate
\* outside it and a catalog code that is no candidate.
C1_Witness ==
    /\ ~substitutions.none
    /\ \E p \in DOMAIN codes_found :
           /\ codes_found[p] # {}
           /\ CandidateSet(texts[p]) \ valid_codes # {}
           /\ valid_codes \ CandidateSet(texts[p]) # {}

\* C2: list_substitutions returns the Cartesian product over the positions of
\* the alternatives of each character, and as many candidates as the product
\* of the numbers of alternatives.
C2_CartesianProduct ==
    pc = "listed" =>
        /\ Range(sub_list) = CartesianSet(st, substitutions.map)
        /\ Len(sub_list) = ProductOfLengths(st, substitutions.map)

\* A token with two ambiguous positions and an unmapped one has been expanded
\* into four candidates.
C2_Witness ==
    /\ pc = "listed"
    /\ Len(sub_list) = 4
    /\ \E i \in 1..Len(st) : st[i] \notin DOMAIN substitutions.map

\* C3, as stated: the tentative set returned for a page is the set of matches
\* of the page's text, with or without a map.
C3_TentativeIsPreExpansion ==
    (returned.has /\ returned.both) =>
        \A p \in DOMAIN returned.tentative : returned.tentative[p] = MatchSet(texts[p])

\* C3, amended: the tentative set returned for a page is the page's candidate
\* set: the set of matches without a map, the union of their expansions with one.
C3_TentativeIsCandidateSet ==
    (returned.has /\ returned.both) =>
        /\ DOMAIN returned.tentative = DOMAIN texts
        /\ \A p \in DOMAIN returned.tentative :
               returned.tentative[p] = CandidateSet(texts[p])

\* The tentative sets are returned, under a map, and one of them is not the set
\* of matches of its page.
C3_Witness ==
    /\ returned.has /\ returned.both
    /\ ~substitutions.none
    /\ \E p \in DOMAIN returned.tentative : returned.tentative[p] # MatchSet(texts[p])

\* C4, as stated: for every recorded page, validated is a subset of the expanded
\* candidate set and every string of that set matches the code pattern.
C4_ExpandedMatchesPattern ==
    \A p \in DOMAIN codes_found :
        /\ codes_found[p] \subseteq tentative_codes[p]
        /\ \A s \in tentative_codes[p] : MatchesCodePattern(s)

\* C4, amended: for every recorded page, validated is a subset of the candidate
\* set; without a map every candidate matches the code pattern; with a map
\* every candidate is an expansion of a match of the page that does.
C4_ExpandedFromPatternMatches ==
    \A p \in DOMAIN codes_found :
        /\ codes_found[p] \subseteq tentative_codes[p]
        /\ substitutions.none => \A s \in tentative_codes[p] : MatchesCodePattern(s)
        /\ ~substitutions.none =>
               \A s \in tentative_codes[p] :
                   \E t \in MatchSet(texts[p]) :
                       MatchesCodePattern(t) /\ s \in CartesianSet(t, substitutions.map)

\* A page is recorded, under a map, with a candidate that does not match the
\* code pattern, and a validated code.
C4_Witness ==
    /\ ~substitutions.none
    /\ \E p \in DOMAIN codes_found :
           /\ codes_found[p] # {}
           /\ \E s \in tentative_codes[p] : ~MatchesCodePattern(s)

\* C5: with a malformed header or code pattern the error is raised, before any
\* page's text is fetched or matched, and no page result is produced.
C5_MalformedPatternFailsFast ==
    ~Pattern.ok =>
        /\ DOMAIN texts = {}
        /\ pc # "done"
        /\ codes_found = EmptyDict

\* C6, as stated: a failure of the text source for a page does not abort the
\* run; the page is recorded with empty sets and every other page as usual.
C6_FailureIsolated ==
    error = "text_source" =>
        /\ pc # "raised"
        /\ pc = "done" =>
               /\ DOMAIN returned.found = DOMAIN texts
               /\ \A p \in DOMAIN texts :
                      returned.found[p] = CandidateSet(texts[p]) \cap valid_codes

\* C6, amended: a failure of the text source for a page aborts the run: the
\* exception leaves detect_codes, search_codes is never entered and no page
\* gets a result, the pages fetched before the failure included.
C6_FailureAbortsRun ==
    error = "text_source" =>
        /\ pc = "raised"
        /\ ~returned.has
        /\ codes_found = EmptyDict
        /\ tentative_codes = EmptyDict

\* The text source failed after the text of another page had been fetched.
C6_Witness ==
    /\ error = "text_source"
    /\ pc = "raised"
    /\ DOMAIN texts # {}
    /\ todo # <<>>

\* C7: what search_codes records for page p is what a call on p's text alone,
\* with the same patterns, catalog and map, records for it. Any two runs that
\* agree on these agree with that call, and so with each other, whatever other
\* pages they hold and in whatever order.
C7_PageResultIsLocal ==
    (solo.ran /\ solo.page \in DOMAIN codes_found) =>
        /\ ~solo.raised
        /\ codes_found[solo.page] = solo.found[solo.page]
        /\ tentative_codes[solo.page] = solo.tentative[solo.page]

\* The page was recorded after another page with another text and candidates
\* of its own.
C7_Witness ==
    /\ solo.ran
    /\ solo.page \in DOMAIN codes_found
    /\ \E q \in DOMAIN codes_found :
           /\ q # solo.page
           /\ keys[1] = q
           /\ texts[q] # texts[solo.page]
           /\ tentative_codes[q] \ tentative_codes[solo.page] # {}

\* C8: expand_with_substitutions yields exactly the union of the expansions of
\* the single tokens: a string is a candidate iff it is in the Cartesian
\* product of the alternatives of some one token of the set.
C8_UnionOfExpansions ==
    pc = "expanded" =>
        Range(extended_codes) = UNION {CartesianSet(t, substitutions.map) : t \in codes}

\* Two tokens, each with more than one expansion, have been expanded.
C8_Witness ==
    /\ pc = "expanded"
    /\ Cardinality(codes) = 2
    /\ \A t \in codes : Cardinality(CartesianSet(t, substitutions.map)) > 1

\* C9: with a pattern that compiles, search_codes raises nothing; a page whose
\* text has no match is recorded with an empty tentative and an empty validated
\* set; the returned mapping has the page identifiers of the input mapping.
C9_NoMatchIsEmptyNotError ==
    Pattern.ok =>
        /\ error # "pattern"
        /\ InSearchCodes => error = "none"
        /\ \A p \in DOMAIN codes_found :
               MatchSet(texts[p]) = {} => tentative_codes[p] = {} /\ codes_found[p] = {}
        /\ pc = "done" =>
               /\ DOMAIN returned.found = DOMAIN texts
               /\ returned.both => DOMAIN returned.tentative = DOMAIN texts

\* The run has returned; one page had no match and another page had one.
C9_Witness ==
    /\ pc = "done"
    /\ \E p, q \in DOMAIN returned.found :
           /\ MatchSet(texts[p]) = {}
           /\ returned.found[p] = {}
           /\ MatchSet(texts[q]) # {}

\* The stages follow one another in the order Extract, Expand (under a map),
\* Validate, and the loop moves on to the next page and never back.
StagesInOrder ==
    /\ (pc = "page" /\ pc' # "page") => pc' \in {"expand", "validate", "raised", "done"}
    /\ (pc = "page" /\ pc' = "expand") => ~substitutions.none
    /\ (pc = "page" /\ pc' = "validate") => substitutions.none
    /\ pc = "expand" => pc' \in {"expand", "validate"}
    /\ pc = "validate" => pc' \in {"validate", "page"}
    /\ InSearchCodes => page_i' \in {page_i, page_i + 1}
    /\ (InSearchCodes /\ page_i' = page_i + 1) => pc = "validate"

\* What is recorded for a page is not changed afterwards.
RecordedIsFinal ==
    InSearchCodes =>
        \A p \in DOMAIN codes_found :
            /\ p \in DOMAIN codes_found' /\ codes_found'[p] = codes_found[p]
            /\ p \in DOMAIN tentative_codes' /\ tentative_codes'[p] = tentative_codes[p]

\* A run of search_codes ends with every page recorded.
EndsWithEveryPageRecorded ==
    (InSearchCodes /\ pc' \in {"done", "raised"}) => DOMAIN codes_found' = DOMAIN texts

C10_StagesOnly == [][StagesInOrder /\ RecordedIsFinal]_vars

\* C10: per page the stages run in the order Extract, Expand (under a map),
\* Validate, Record, none revisited; a recorded result is never changed; the
\* run ends with every page recorded.
C10_LinearStagesAllRecorded ==
    [][StagesInOrder /\ RecordedIsFinal /\ EndsWithEveryPageRecorded]_vars

===========================================================================
